---- MODULE Spec2Model ----
(***************************************************************************)
(* Model of the pull-request review tool: the position resolver            *)
(* (AICodeAnalyzer.calculatePosition), the two analyzers, and the run      *)
(* (main).  Text is modelled as a sequence of one-character strings, so    *)
(* that splitting, prefix tests, the hunk-header pattern and parseInt are  *)
(* computed the way the source computes them.                              *)
(***************************************************************************)
EXTENDS Integers, Sequences, FiniteSets, TLC

VARIABLES
    patch,        \* calculatePosition: the `patch` argument (text)
    targetLine,   \* calculatePosition: the `targetLine` argument
    patchHunks,   \* the hunks the patch text was written from (input description)
    posPc,        \* calculatePosition: "call" before the call, "done" after it
    posResult,    \* calculatePosition: the returned value
    env,          \* process.env of the run
    mainPc,       \* main: where the run stands ("none": no run, analyze is called directly)
    exitCode,     \* "none" while running, "0" or "1" once the process has ended
    analyzer,     \* which analyzer object exists: "none", "mock" or "ai"
    apiKey,       \* AICodeAnalyzer.apiKey
    diffs,        \* the PRDiff[] fetched by the run / passed to analyze
    anPc,         \* analyze: "idle", "called", "awaitModel", "returned", "threw"
    anResult,     \* analyze: the ReviewResult it returned
    response,     \* analyze: the answer of the model endpoint
    net,          \* every outbound request sent so far, in order
    bodies,       \* what each of these requests carried (the prompt, the comment body,
                  \* the review comments; <<>> for a request without a payload)
    inflight      \* number of outbound requests sent and not yet answered

posVars == <<patch, targetLine, patchHunks, posPc, posResult>>
runVars == <<env, mainPc, exitCode>>
anVars == <<analyzer, apiKey, diffs, anPc, anResult, response>>
netVars == <<net, bodies, inflight>>
vars == <<posVars, runVars, anVars, netVars>>

\* ------------------------------------------------------------------ bounds
MaxBody == 2      \* body lines per hunk
MaxStart == 2     \* new-file start line of a hunk header
MaxDiffs == 2     \* entries of a diff set

\* ------------------------------------------------------------ JS values
Undefined == [defined |-> FALSE]
Some(n) == [defined |-> TRUE, value |-> n]

\* ------------------------------------------------- text (String methods)
NL == "\n"
DigitChars == <<"0", "1", "2", "3", "4", "5", "6", "7", "8", "9">>
IsDigit(c) == \E d \in 1..10 : DigitChars[d] = c
DigitValue(c) == (CHOOSE d \in 1..10 : DigitChars[d] = c) - 1

\* line.startsWith(prefix)
StartsWith(s, prefix) ==
    /\ Len(s) >= Len(prefix)
    /\ SubSeq(s, 1, Len(prefix)) = prefix

\* the literal `lit` occurs in s at index i
LitAt(s, i, lit) ==
    /\ i >= 1
    /\ i + Len(lit) - 1 <= Len(s)
    /\ SubSeq(s, i, i + Len(lit) - 1) = lit

\* index just after the longest run of digits of s that starts at i (\d+ is greedy)
RECURSIVE DigitRunEnd(_, _)
DigitRunEnd(s, i) ==
    IF i <= Len(s) /\ IsDigit(s[i]) THEN DigitRunEnd(s, i + 1) ELSE i

\* parseInt(digits, 10) of a non-empty run of digits
RECURSIVE ParseInt(_)
ParseInt(digits) ==
    IF Len(digits) = 0 THEN 0
    ELSE 10 * ParseInt(SubSeq(digits, 1, Len(digits) - 1))
         + DigitValue(digits[Len(digits)])

\* text.split(sep) for a one-character separator
RECURSIVE SplitFrom(_, _, _, _)
SplitFrom(text, sep, i, cur) ==
    IF i > Len(text) THEN <<cur>>
    ELSE IF text[i] = sep THEN <<cur>> \o SplitFrom(text, sep, i + 1, <<>>)
    ELSE SplitFrom(text, sep, i + 1, Append(cur, text[i]))
Split(text, sep) == SplitFrom(text, sep, 1, <<>>)

\* ------------------------------------------------------ calculatePosition
\* /@@ -\d+,\d+ \+(\d+),\d+ @@/ tried at index i of the line: the captured
\* group (the digits of the new-file start), or <<>> when it does not match there
HunkHeaderMatchAt(line, i) ==
    LET p1 == i + 4
        p2 == DigitRunEnd(line, p1)
        p3 == p2 + 1
        p4 == DigitRunEnd(line, p3)
        p5 == p4 + 2
        p6 == DigitRunEnd(line, p5)
        p7 == p6 + 1
        p8 == DigitRunEnd(line, p7)
    IN  IF /\ LitAt(line, i, <<"@", "@", " ", "-">>)
           /\ p2 > p1
           /\ LitAt(line, p2, <<",">>)
           /\ p4 > p3
           /\ LitAt(line, p4, <<" ", "+">>)
           /\ p6 > p5
           /\ LitAt(line, p6, <<",">>)
           /\ p8 > p7
           /\ LitAt(line, p8, <<" ", "@", "@">>)
        THEN SubSeq(line, p5, p6 - 1)
        ELSE <<>>

\* line.match(/@@ -\d+,\d+ \+(\d+),\d+ @@/): the pattern is not anchored, the
\* leftmost match wins; <<>> stands for null
HunkHeaderMatch(line) ==
    LET hits == {i \in 1..Len(line) : HunkHeaderMatchAt(line, i) # <<>>}
    IN  IF hits = {} THEN <<>>
        ELSE HunkHeaderMatchAt(line, CHOOSE i \in hits : \A j \in hits : i <= j)

\* ScanLine with the header reset off by one (currentLine = start, not start-1)
ScanLine_ResetToStart(st, line, target) ==
    LET pos == st.position + 1
    IN  IF StartsWith(line, <<"@", "@">>)
        THEN LET m == HunkHeaderMatch(line)
             IN  [st EXCEPT !.position = pos,
                            !.currentLine = IF m # <<>> THEN ParseInt(m)
                                            ELSE st.currentLine]
        ELSE LET cur == IF ~StartsWith(line, <<"-">>) THEN st.currentLine + 1
                        ELSE st.currentLine
             IN  IF cur = target
                 THEN [st EXCEPT !.position = pos, !.currentLine = cur,
                                 !.returned = TRUE, !.value = pos]
                 ELSE [st EXCEPT !.position = pos, !.currentLine = cur]

\* one iteration of the for loop over the lines; st is the loop state
\* [currentLine, position, returned, value]
ScanLine(st, line, target) ==
    LET pos == st.position + 1
    IN  IF StartsWith(line, <<"@", "@">>)
        THEN LET m == HunkHeaderMatch(line)
             IN  [st EXCEPT !.position = pos,
                            !.currentLine = IF m # <<>> THEN ParseInt(m) - 1
                                            ELSE st.currentLine]
        ELSE LET cur == IF ~StartsWith(line, <<"-">>) THEN st.currentLine + 1
                        ELSE st.currentLine
             IN  IF cur = target
                 THEN [st EXCEPT !.position = pos, !.currentLine = cur,
                                 !.returned = TRUE, !.value = pos]
                 ELSE [st EXCEPT !.position = pos, !.currentLine = cur]

\* the loop state after the first k lines (the scan stops at the return)
RECURSIVE ScanState(_, _, _)
ScanState(lines, target, k) ==
    IF k = 0
    THEN [currentLine |-> 0, position |-> 0, returned |-> FALSE, value |-> 0]
    ELSE LET st == ScanState(lines, target, k - 1)
         IN  IF st.returned THEN st ELSE ScanLine(st, lines[k], target)

\* calculatePosition(patch, targetLine); split, startsWith, match and parseInt
\* do not throw on strings, so the catch branch is never taken
calculatePosition(p, target) ==
    LET lines == Split(p, NL)
        st == ScanState(lines, target, Len(lines))
    IN  IF st.returned THEN Some(st.value) ELSE Undefined

\* ------------------------------------------------- patches given as input
\* A patch is written from a sequence of hunks.  A hunk has a header kind:
\*   "ok"      @@ -a,b +start,len @@   (len counted from the body)
\*   "nocount" @@ -a +start @@         (a header without the ,len counts)
\*   "none"    no header line at all   (only as the whole patch)
\* and a body of context (" "), added ("+") and deleted ("-") lines.
BodyKinds == {"ctx", "add", "del"}

RECURSIVE NumText(_)
NumText(n) ==
    IF n < 10 THEN <<DigitChars[n + 1]>>
    ELSE NumText(n \div 10) \o <<DigitChars[(n % 10) + 1]>>

CountKind(body, kinds) == Cardinality({i \in 1..Len(body) : body[i] \in kinds})
NewLen(body) == CountKind(body, {"ctx", "add"})
OldLen(body) == CountKind(body, {"ctx", "del"})

BodyLineText(k) ==
    CASE k = "ctx" -> <<" ", "x">>
      [] k = "add" -> <<"+", "x">>
      [] k = "del" -> <<"-", "x">>

HeaderText(h) ==
    IF h.kind = "ok"
    THEN <<"@", "@", " ", "-">> \o NumText(h.start) \o <<",">> \o NumText(h.old)
         \o <<" ", "+">> \o NumText(h.start) \o <<",">> \o NumText(NewLen(h.body))
         \o <<" ", "@", "@">>
    ELSE <<"@", "@", " ", "-">> \o NumText(h.start)
         \o <<" ", "+">> \o NumText(h.start) \o <<" ", "@", "@">>

HunkLines(h) ==
    (IF h.kind = "none" THEN <<>> ELSE <<HeaderText(h)>>)
    \o [i \in 1..Len(h.body) |-> BodyLineText(h.body[i])]

RECURSIVE PatchLines(_)
PatchLines(hs) ==
    IF hs = <<>> THEN <<>> ELSE HunkLines(Head(hs)) \o PatchLines(Tail(hs))

RECURSIVE JoinLines(_)
JoinLines(ls) ==
    IF Len(ls) = 0 THEN <<>>
    ELSE IF Len(ls) = 1 THEN ls[1]
    ELSE ls[1] \o <<NL>> \o JoinLines(Tail(ls))

PatchText(hs) == JoinLines(PatchLines(hs))

Bodies == UNION {[1..n -> BodyKinds] : n \in 0..MaxBody}
OkHunks ==
    {[kind |-> "ok", start |-> s, old |-> OldLen(b), body |-> b] :
        s \in 1..MaxStart, b \in Bodies}
NoCountHunks ==
    {[kind |-> "nocount", start |-> 1, old |-> OldLen(b), body |-> b] : b \in Bodies}
HeaderlessHunks ==
    {[kind |-> "none", start |-> 0, old |-> 0, body |-> b] : b \in Bodies \ {<<>>}}

\* the patch of the worked example: @@ -1,3 +1,4 @@, context, added, added, context
\* (the old-file counts are not read by the resolver)
ExampleHunks ==
    <<[kind |-> "ok", start |-> 1, old |-> 3, body |-> <<"ctx", "add", "add", "ctx">>]>>

\* patches of no hunk, of one hunk, and of two hunks (any order of the start
\* lines), the second of which may have a header without counts
PatchInputs ==
    {<<h>> : h \in OkHunks \cup NoCountHunks \cup HeaderlessHunks}
    \cup {<<h1, h2>> : h1 \in OkHunks, h2 \in OkHunks \cup NoCountHunks}
    \cup {ExampleHunks}

MaxTarget == MaxStart + MaxBody + 2
Targets == 0..MaxTarget

\* ------------------------------------------ text used by the analyzers
\* Reply texts, file names and messages are sequences of atoms: every
\* character the patterns look at (#, space, newline, digits, ".", "-", ":",
\* "/") is an atom of its own, a word is one atom.  The Chinese words of the
\* source are written in pinyin: "gao-yanzhongxing-wenti" (high-severity
\* issues), "zhongdeng-yanzhongxing-wenti" (medium), "di-yanzhongxing-wenti"
\* (low), "wentidian" (problem points), "zai" (at).
IsSpace(c) == c \in {" ", NL}

Min(S) == CHOOSE x \in S : \A y \in S : x <= y
Max(S) == CHOOSE x \in S : \A y \in S : x >= y

\* the elements of a set of numbers in increasing order
Ascending(S) ==
    [k \in 1..Cardinality(S) |-> CHOOSE x \in S : Cardinality({y \in S : y < x}) = k - 1]
\* the pieces of a sequence of texts joined into one text
RECURSIVE Flatten(_)
Flatten(texts) == IF texts = <<>> THEN <<>> ELSE Head(texts) \o Flatten(Tail(texts))

\* the element of a one-element set; TheOne({e : v \in {x}}) is e with v bound
\* to the value of x, a const binding
TheOne(S) == CHOOSE y \in S : TRUE

\* index just after the longest run of whitespace that starts at i (\s+, \s*)
RECURSIVE SpaceRunEnd(_, _)
SpaceRunEnd(s, i) ==
    IF i <= Len(s) /\ IsSpace(s[i]) THEN SpaceRunEnd(s, i + 1) ELSE i

\* index just after the longest run of characters other than `stop` from i ([^:]+)
RECURSIVE RunEndExcept(_, _, _)
RunEndExcept(s, i, stop) ==
    IF i <= Len(s) /\ s[i] # stop THEN RunEndExcept(s, i + 1, stop) ELSE i

\* s.trim()
RECURSIVE TrimLeft(_)
TrimLeft(s) == IF Len(s) > 0 /\ IsSpace(s[1]) THEN TrimLeft(Tail(s)) ELSE s
RECURSIVE TrimRight(_)
TrimRight(s) ==
    IF Len(s) > 0 /\ IsSpace(s[Len(s)]) THEN TrimRight(SubSeq(s, 1, Len(s) - 1)) ELSE s
Trim(s) == TrimRight(TrimLeft(s))

\* s.endsWith(suffix)
EndsWith(s, suffix) ==
    /\ Len(s) >= Len(suffix)
    /\ SubSeq(s, Len(s) - Len(suffix) + 1, Len(s)) = suffix

\* index of the leftmost occurrence of lit in s, 0 when there is none
FirstIndexOf(s, lit) ==
    TheOne({IF hits = {} THEN 0 ELSE Min(hits) :
            hits \in {{i \in 1..Len(s) : LitAt(s, i, lit)}}})

\* -------------------------------------------------------------- JS values
JsUndefined == [t |-> "undefined"]
JsNull == [t |-> "null"]
JsString(text) == [t |-> "string", text |-> text]
JsArray(items) == [t |-> "array", items |-> items]
JsObject(fields) == [t |-> "object", f |-> fields]
NoFields == [k \in {} |-> JsUndefined]

\* truthiness of a value (&&, ?:, if)
Truthy(v) ==
    /\ v.t \notin {"undefined", "null"}
    /\ ~(v.t = "string" /\ v.text = <<>>)
\* v.name, for a v that is neither null nor undefined
Prop(v, name) ==
    IF v.t = "object" /\ name \in DOMAIN v.f THEN v.f[name] ELSE JsUndefined
\* v[0], for a v that is neither null nor undefined
Index0(v) ==
    IF v.t = "array" /\ Len(v.items) >= 1 THEN v.items[1] ELSE JsUndefined

\* JSON.stringify of a value whose objects hold at most one key
RECURSIVE Stringify(_)
Stringify(v) ==
    CASE v.t = "null" -> <<"null">>
      [] v.t = "string" -> <<"\"">> \o v.text \o <<"\"">>
      [] v.t = "array" ->
            <<"[">> \o (IF Len(v.items) = 0 THEN <<>> ELSE Stringify(v.items[1])) \o <<"]">>
      [] v.t = "object" ->
            IF DOMAIN v.f = {} THEN <<"{", "}">>
            ELSE LET k == CHOOSE x \in DOMAIN v.f : TRUE
                 IN  <<"{", "\"", k, "\"", ":">> \o Stringify(v.f[k]) \o <<"}">>

\* ----------------------------------------------------------- file names
FileA == <<"a", ".ts">>
FileSrcA == <<"src", "/", "a", ".ts">>
FileCss == <<"b", ".css">>
FileDoc == <<"r", ".md">>
FileOther == <<"c", ".py">>

\* ---------------------------------------------------------- reply parser
H3 == <<"#", "#", "#", " ">>
HighHeading == H3 \o <<"gao-yanzhongxing-wenti">>
MediumHeading == H3 \o <<"zhongdeng-yanzhongxing-wenti">>
LowHeading == H3 \o <<"di-yanzhongxing-wenti">>

\* variant of LazyUntilHashes whose capture runs to the end of the text
LazyUntilHashes_ToEnd(text, from) == SubSeq(text, from, Len(text))

\* ([\s\S]*?)(?=###|##|$) from index `from`: the shortest capture that ends
\* before "##" or at the end of the text
LazyUntilHashes(text, from) ==
    TheOne({SubSeq(text, from, Min(stops) - 1) :
            stops \in {{j \in from..(Len(text) + 1) :
                           j = Len(text) + 1 \/ LitAt(text, j, <<"#", "#">>)}}})

\* aiReply.match(/<heading>\n([\s\S]*?)(?=###|##|$)/): null, or the captured group
SeverityMatch(text, heading) ==
    TheOne({IF i = 0 THEN [matched |-> FALSE, group |-> <<>>]
            ELSE [matched |-> TRUE, group |-> LazyUntilHashes(text, i + Len(heading) + 1)] :
            i \in {FirstIndexOf(text, heading \o <<NL>>)}})

\* variant of ProblemsMatchAt that lets one more word stand before the name
ProblemsMatchAt_WordBefore(text, i) ==
    /\ LitAt(text, i, <<"#", "#">>)
    /\ \/ LitAt(text, SpaceRunEnd(text, i + 2), <<"wentidian">>)
       \/ LitAt(text, SpaceRunEnd(text, i + 2) + 1, <<"wentidian">>)
\* aiReply.match(/##\s*wentidian:?([\s\S]*?)(?=##|$)/)
ProblemsMatchAt(text, i) ==
    LET w == SpaceRunEnd(text, i + 2)
    IN  LitAt(text, i, <<"#", "#">>) /\ LitAt(text, w, <<"wentidian">>)
ProblemsGroup(text, i) ==
    TheOne({LazyUntilHashes(text, IF LitAt(text, w, <<":">>) THEN w + 1 ELSE w) :
            w \in {SpaceRunEnd(text, i + 2) + 1}})
ProblemsMatch(text) ==
    TheOne({IF hits = {} THEN [matched |-> FALSE, group |-> <<>>]
            ELSE [matched |-> TRUE, group |-> ProblemsGroup(text, Min(hits))] :
            hits \in {{i \in 1..Len(text) : ProblemsMatchAt(text, i)}}})

\* \s+-\s+zai\s+([^:]+):(\d+) tried at index c (just after the lazy group)
ItemTailAt(t, c) ==
    LET s2 == SpaceRunEnd(t, c)
        e == s2 + 1
        s3 == SpaceRunEnd(t, e)
        f == s3 + 1
        r == SpaceRunEnd(t, f)
        ws == {w \in 1..(r - f) :
                  LET g == f + w
                      h == RunEndExcept(t, g, ":")
                  IN  h > g /\ LitAt(t, h, <<":">>) /\ DigitRunEnd(t, h + 1) > h + 1}
    IN  IF /\ s2 > c
           /\ LitAt(t, s2, <<"-">>)
           /\ s3 > e
           /\ LitAt(t, s3, <<"zai">>)
           /\ ws # {}
        THEN LET g == f + Max(ws)
                 h == RunEndExcept(t, g, ":")
                 z == DigitRunEnd(t, h + 1)
             IN  [ok |-> TRUE, file |-> SubSeq(t, g, h - 1),
                  line |-> SubSeq(t, h + 1, z - 1), end |-> z]
        ELSE [ok |-> FALSE, file |-> <<>>, line |-> <<>>, end |-> 0]

\* /\d+\.\s+(.+?)\s+-\s+zai\s+([^:]+):(\d+)/ tried at index s: \s+ is greedy
\* (longest first), (.+?) is lazy (shortest first) and does not cross a newline
ItemCandidates(t, s, d) ==
    IF d > s /\ LitAt(t, d, <<".">>)
    THEN {c \in (1..(SpaceRunEnd(t, d + 1) - (d + 1))) \X (1..Len(t)) :
             /\ d + c[1] + c[2] <= Len(t)
             /\ \A q \in (d + 1 + c[1])..(d + c[1] + c[2]) : t[q] # NL
             /\ ItemTailAt(t, d + 1 + c[1] + c[2]).ok}
    ELSE {}
\* the widest \s+ first, then the shortest (.+?): the pair <<spaces, length>>
ItemChoice(cands) ==
    TheOne({<<w, Min({c[2] : c \in {x \in cands : x[1] = w}})>> :
            w \in {Max({c[1] : c \in cands})}})
ItemFound(t, d, pick) ==
    TheOne({[ok |-> TRUE, text |-> SubSeq(t, d + 1 + pick[1], d + pick[1] + pick[2]),
             file |-> tail.file, line |-> tail.line, end |-> tail.end] :
            tail \in {ItemTailAt(t, d + 1 + pick[1] + pick[2])}})
ItemAmong(t, d, cands) ==
    IF cands = {}
    THEN [ok |-> FALSE, text |-> <<>>, file |-> <<>>, line |-> <<>>, end |-> 0]
    ELSE TheOne({ItemFound(t, d, pick) : pick \in {ItemChoice(cands)}})
ItemAfterDigits(t, s, d) ==
    TheOne({ItemAmong(t, d, cands) : cands \in {ItemCandidates(t, s, d)}})
ItemMatchAt(t, s) ==
    TheOne({ItemAfterDigits(t, s, d) : d \in {DigitRunEnd(t, s)}})

\* variant of ItemMatches that drops a match repeated later in the section
RECURSIVE ItemMatches_NoRepeats(_, _)
ItemMatches_NoRepeats(t, from) ==
    TheOne({IF hits = {} THEN <<>>
            ELSE TheOne({TheOne({IF \E i \in 1..Len(rest) :
                                        /\ rest[i].text = m.text
                                        /\ rest[i].file = m.file
                                        /\ rest[i].line = m.line
                                 THEN rest ELSE <<m>> \o rest :
                                 rest \in {ItemMatches_NoRepeats(t, m.end)}}) :
                         m \in {ItemMatchAt(t, Min(hits))}}) :
            hits \in {{s \in from..Len(t) : ItemMatchAt(t, s).ok}}})

\* the while loop over regex.exec with the g flag: every match, left to right,
\* each search resuming where the previous match ended
RECURSIVE ItemMatches(_, _)
ItemMatches(t, from) ==
    TheOne({IF hits = {} THEN <<>>
            ELSE TheOne({<<m>> \o ItemMatches(t, m.end) :
                         m \in {ItemMatchAt(t, Min(hits))}}) :
            hits \in {{s \in from..Len(t) : ItemMatchAt(t, s).ok}}})

\* parseIssuesFromSection(section, severity)
parseIssuesFromSection(section, severity) ==
    TheOne({[i \in 1..Len(ms) |->
                [message |-> ms[i].text, file |-> ms[i].file,
                 line |-> Some(ParseInt(ms[i].line)), severity |-> severity,
                 type |-> "bug"]] :
            ms \in {ItemMatches(section, 1)}})

\* formatCommentBody(body)
RECURSIVE StripLeadingSpaceDash(_)
StripLeadingSpaceDash(s) ==
    IF Len(s) > 0 /\ (IsSpace(s[1]) \/ s[1] = "-") THEN StripLeadingSpaceDash(Tail(s)) ELSE s
formatCommentBody(body) ==
    TheOne({IF ~EndsWith(b, <<".">>) /\ ~EndsWith(b, <<"?">>) /\ ~EndsWith(b, <<"!">>)
            THEN b \o <<".">> ELSE b :
            b \in {StripLeadingSpaceDash(Trim(body))}})

\* diffs.find(d => d.filename === path || d.filename.endsWith(`/${path}`)):
\* the index of the first such entry, 0 when there is none
FindDiff(ds, path) ==
    TheOne({IF hits = {} THEN 0 ELSE Min(hits) :
            hits \in {{i \in 1..Len(ds) :
                          \/ ds[i].filename = path
                          \/ EndsWith(ds[i].filename, <<"/">> \o path)}}})

\* extractLineComments(aiReply, diffs)
LinePosition(d, lineStr) ==
    TheOne({calculatePosition(c[1], c[2]) : c \in {<<d.patch.text, ParseInt(lineStr)>>}})
\* variant of LineComment whose path is the path of the matched diff entry
LineComment_EntryPath(m, ds) ==
    TheOne({[path |-> IF k # 0 THEN ds[k].filename ELSE m.file,
             body |-> formatCommentBody(m.text),
             position |-> IF k # 0 /\ Truthy(ds[k].patch) THEN LinePosition(ds[k], m.line)
                          ELSE Undefined] :
            k \in {FindDiff(ds, m.file)}})
LineComment(m, ds) ==
    TheOne({[path |-> m.file,
             body |-> formatCommentBody(m.text),
             position |-> IF k # 0 /\ Truthy(ds[k].patch) THEN LinePosition(ds[k], m.line)
                          ELSE Undefined] :
            k \in {FindDiff(ds, m.file)}})
LineComments(section, ds) ==
    TheOne({[i \in 1..Len(ms) |-> LineComment(ms[i], ds)] :
            ms \in {ItemMatches(section, 1)}})
\* variant of extractLineComments that reads the items of the whole reply
extractLineComments_WholeReply(text, ds) == LineComments(text, ds)
extractLineComments(text, ds) ==
    TheOne({IF pm.matched /\ pm.group # <<>>
            THEN TheOne({LineComments(section, ds) : section \in {Trim(pm.group)}})
            ELSE <<>> :
            pm \in {ProblemsMatch(text)}})

\* lines 120-146: the three severity subsections, then the problem list
ParseSeverity(text, heading, severity) ==
    TheOne({IF m.matched /\ m.group # <<>>
            THEN TheOne({parseIssuesFromSection(section, severity) : section \in {m.group}})
            ELSE <<>> :
            m \in {SeverityMatch(text, heading)}})
ParseIssues(text) ==
    ParseSeverity(text, HighHeading, "high")
    \o ParseSeverity(text, MediumHeading, "medium")
    \o ParseSeverity(text, LowHeading, "low")

\* ------------------------------------------------------------- diff sets
DiffSrcA ==
    [filename |-> FileSrcA, patch |-> JsString(PatchText(ExampleHunks)),
     additions |-> 2, deletions |-> 0, changes |-> 2, status |-> "modified"]
DiffA ==
    [filename |-> FileA,
     patch |-> JsString(PatchText(
                  <<[kind |-> "ok", start |-> 2, old |-> 2, body |-> <<"del", "ctx">>]>>)),
     additions |-> 0, deletions |-> 1, changes |-> 1, status |-> "modified"]
DiffCss ==
    [filename |-> FileCss, patch |-> JsUndefined,
     additions |-> 0, deletions |-> 0, changes |-> 0, status |-> "renamed"]
\* a file of another kind whose first line was replaced: @@ -1,1 +1,1 @@, deleted, added
DiffOther ==
    [filename |-> FileOther,
     patch |-> JsString(PatchText(
                  <<[kind |-> "ok", start |-> 1, old |-> 1, body |-> <<"del", "add">>]>>)),
     additions |-> 1, deletions |-> 1, changes |-> 2, status |-> "modified"]
DiffEntries == {DiffSrcA, DiffA, DiffCss, DiffOther}
DiffSets == UNION {[1..n -> DiffEntries] : n \in 0..MaxDiffs}

\* --------------------------------------------------------- ReviewResult
NothingToAnalyze == <<"meiyou-faxian-chayi-xuyao-fenxi">>
ReviewResult(comments, issues, summary) ==
    [defined |-> TRUE, comments |-> comments, issues |-> issues, summary |-> summary]

\* ------------------------------------------------------ MockCodeAnalyzer
JsIssue(d) ==
    [type |-> "performance", severity |-> "medium", message |-> <<"js-issue">>,
     file |-> d.filename, line |-> Undefined]
JsComment(d) == [path |-> d.filename, body |-> <<"js-advice">>, position |-> Undefined]
CssIssue(d) ==
    [type |-> "style", severity |-> "low", message |-> <<"css-issue">>,
     file |-> d.filename, line |-> Undefined]
CssComment(d) == [path |-> d.filename, body |-> <<"css-advice">>, position |-> Undefined]
DocIssue(d) ==
    [type |-> "improvement", severity |-> "low", message |-> <<"doc-issue">>,
     file |-> d.filename, line |-> Undefined]
DocComment(d) == [path |-> d.filename, body |-> <<"doc-advice">>, position |-> Undefined]

\* the branch of the forEach body taken for one entry: "js", "css", "doc" or "none"
MockRule(d) ==
    IF EndsWith(d.filename, <<".js">>) \/ EndsWith(d.filename, <<".ts">>) THEN "js"
    ELSE IF EndsWith(d.filename, <<".css">>) THEN "css"
    ELSE IF EndsWith(d.filename, <<".md">>) \/ EndsWith(d.filename, <<".txt">>) THEN "doc"
    ELSE "none"

RECURSIVE MockIssues(_)
MockIssues(ds) ==
    IF ds = <<>> THEN <<>>
    ELSE LET d == Head(ds)
             r == MockRule(d)
         IN  (CASE r = "js" -> <<JsIssue(d)>>
                [] r = "css" -> <<CssIssue(d)>>
                [] r = "doc" -> <<DocIssue(d)>>
                [] OTHER -> <<>>) \o MockIssues(Tail(ds))

RECURSIVE MockComments(_)
MockComments(ds) ==
    IF ds = <<>> THEN <<>>
    ELSE LET d == Head(ds)
             r == MockRule(d)
         IN  (CASE r = "js" -> <<JsComment(d)>>
                [] r = "css" -> <<CssComment(d)>>
                [] r = "doc" -> <<DocComment(d)>>
                [] OTHER -> <<>>) \o MockComments(Tail(ds))

RECURSIVE SumOf(_, _)
SumOf(ds, field) == IF ds = <<>> THEN 0 ELSE Head(ds)[field] + SumOf(Tail(ds), field)
CountSeverity(issues, sev) ==
    Cardinality({i \in 1..Len(issues) : issues[i].severity = sev})

\* generateSummary(diffs, issues): the fixed report text around the five numbers
generateSummary(ds, issues) ==
    <<"summary-title", NL, NL, "reviewed", " ">> \o NumText(Len(ds)) \o <<" ", "files", " ">>
    \o NumText(SumOf(ds, "additions")) \o <<" ", "added", " ">>
    \o NumText(SumOf(ds, "deletions")) \o <<" ", "deleted", NL, NL>>
    \o <<"#", "#", " ", "found", NL, NL, "-", " ", "high", ":", " ">>
    \o NumText(CountSeverity(issues, "high"))
    \o <<NL, "-", " ", "medium", ":", " ">> \o NumText(CountSeverity(issues, "medium"))
    \o <<NL, "-", " ", "low", ":", " ">> \o NumText(CountSeverity(issues, "low"))
    \o <<NL, NL, "#", "#", " ", "assessment", NL, NL, "#", "#", " ", "advice">>

\* variant of mockAnalyze without the early return for an empty diff sequence
mockAnalyze_NoEarlyReturn(ds) ==
    ReviewResult(MockComments(ds), MockIssues(ds),
                 JsString(generateSummary(ds, MockIssues(ds))))

\* MockCodeAnalyzer.analyze(diffs)
mockAnalyze(ds) ==
    IF Len(ds) = 0
    THEN ReviewResult(<<>>, <<>>, JsString(NothingToAnalyze))
    ELSE ReviewResult(MockComments(ds), MockIssues(ds),
                      JsString(generateSummary(ds, MockIssues(ds))))

\* -------------------------------------------- answers of the model endpoint
Item(n, msg, file, line) ==
    <<DigitChars[n + 1], ".", " ">> \o msg \o <<" ", "-", " ", "zai", " ">>
    \o file \o <<":">> \o NumText(line)
ProblemsHeading == <<"#", "#", " ", "wentidian", ":">>
\* the heading of the template the prompt mandates, with its emoji
TemplateProblemsHeading == <<"#", "#", " ", "emoji-thinking", "wentidian", ":">>

ReplyPlain == <<"LGTM", ".">>
ReplyHigh == HighHeading \o <<NL>> \o Item(1, <<"m1">>, FileSrcA, 3) \o <<NL>>
ReplyFull ==
    HighHeading \o <<NL>> \o Item(1, <<"m1">>, FileA, 2) \o <<NL>>
    \o LowHeading \o <<NL>> \o Item(1, <<"m2">>, FileCss, 1) \o <<NL>>
    \o Item(2, <<"m3">>, FileA, 1) \o <<NL>>
    \o ProblemsHeading \o <<NL>> \o Item(1, <<"m1">>, FileA, 3) \o <<NL>>
    \o Item(2, <<"m2", "?">>, FileOther, 0) \o <<NL>>
    \o Item(3, <<"m3">>, FileCss, 1) \o <<NL>>
ReplyTemplate ==
    TemplateProblemsHeading \o <<NL>> \o Item(1, <<"m1">>, FileA, 3) \o <<NL>>
\* the low subsection before the high one
ReplyLowFirst ==
    LowHeading \o <<NL>> \o Item(1, <<"m1">>, FileA, 1) \o <<NL>>
    \o HighHeading \o <<NL>> \o Item(1, <<"m2">>, FileA, 2) \o <<NL>>
\* a renamed high heading, then the same item twice in the medium subsection
\* and in the problem list
ReplyRepeat ==
    HighHeading \o <<":", NL>> \o Item(1, <<"m1">>, FileA, 1) \o <<NL>>
    \o MediumHeading \o <<NL>> \o Item(1, <<"m2">>, FileA, 2) \o <<NL>>
    \o Item(2, <<"m2">>, FileA, 2) \o <<NL>>
    \o ProblemsHeading \o <<NL>> \o Item(1, <<"m3">>, FileA, 3) \o <<NL>>
    \o Item(2, <<"m3">>, FileA, 3) \o <<NL>>
SampleReplies ==
    {ReplyPlain, ReplyHigh, ReplyFull, ReplyTemplate, ReplyLowFirst, ReplyRepeat}

Envelope(content) ==
    JsObject([choices |-> JsArray(<<JsObject([message |-> JsObject([content |-> content])])>>)])
\* what response.json() yields for the bodies that are JSON
Envelopes ==
    {JsNull,
     JsObject(NoFields),
     JsObject([choices |-> JsArray(<<>>)]),
     JsObject([choices |-> JsArray(<<JsObject(NoFields)>>)]),
     JsObject([choices |-> JsArray(<<JsObject([message |-> JsObject(NoFields)])>>)]),
     Envelope(JsNull)}
    \cup {Envelope(JsString(r)) : r \in SampleReplies}

\* an answer: fetch rejects ("reject"), or a response with a status and a body
\* that is JSON ("json", with its value) or is not ("notjson")
Responses ==
    {[kind |-> "reject", ok |-> FALSE, json |-> FALSE, data |-> JsUndefined]}
    \cup {[kind |-> "response", ok |-> o, json |-> FALSE, data |-> JsUndefined] :
             o \in BOOLEAN}
    \cup {[kind |-> "response", ok |-> o, json |-> TRUE, data |-> d] :
             o \in BOOLEAN, d \in Envelopes}
NoResponse == [kind |-> "none", ok |-> FALSE, json |-> FALSE, data |-> JsUndefined]

\* -------------------------------------------------------- AICodeAnalyzer
\* lines 99-112: the reply taken from the envelope (both branches are the same)
ExtractReply(data) ==
    LET c == Prop(data, "choices")
        c0 == Index0(c)
        m == Prop(c0, "message")
    IN  IF Truthy(c) /\ Truthy(c0) /\ Truthy(m) THEN Prop(m, "content")
        ELSE JsString(Stringify(data))

\* lines 116-157: aiReply.match throws a TypeError when aiReply is not a string;
\* the inner catch swallows it and the result is built from what was pushed
ParseThrows(reply) == reply.t # "string"
\* variant of AssembleResult whose summary is empty when the parse threw
AssembleResult_EmptySummaryOnThrow(reply, ds) ==
    IF ParseThrows(reply) THEN ReviewResult(<<>>, <<>>, JsString(<<>>))
    ELSE TheOne({ReviewResult(extractLineComments(text, ds), ParseIssues(text), reply) :
                 text \in {reply.text}})
AssembleResult(reply, ds) ==
    IF ParseThrows(reply) THEN ReviewResult(<<>>, <<>>, reply)
    ELSE TheOne({ReviewResult(extractLineComments(text, ds), ParseIssues(text), reply) :
                 text \in {reply.text}})

\* lines 80-161 after the request was sent: "threw" or the ReviewResult
\*   fetch rejects, status not ok, body not JSON (response.json() rejects),
\*   data null (reading data.choices throws): the outer catch rethrows
AnalyzeThrows_StatusIgnored(r) ==
    \/ r.kind = "reject"
    \/ ~r.json
    \/ r.data.t \in {"null", "undefined"}
\* variant of AnalyzeThrows in which an exception of the parse reaches the caller
AnalyzeThrows_ParseErrorEscapes(r) ==
    \/ r.kind = "reject"
    \/ ~r.ok
    \/ ~r.json
    \/ r.data.t \in {"null", "undefined"}
    \/ ParseThrows(ExtractReply(r.data))
AnalyzeThrows(r) ==
    \/ r.kind = "reject"
    \/ ~r.ok
    \/ ~r.json
    \/ r.data.t \in {"null", "undefined"}

\* ------------------------------------------------ preparePromptFromDiffs
\* The fixed wording of the prompt is written as one word per phrase; the parts
\* computed from the diffs are written out.  "backtick" is the grave accent and
\* "fence" three of them.
SystemPrompt == <<"system-prompt">>
PromptHead(n) ==
    <<"#", "#", " ", "daima-shencha-qingqiu", NL, " ", " ", " ", " ", NL, "request-text", NL, NL,
      "#", "#", "#", " ", "biangeng-gaishu", NL, "gongyou", " ">>
    \o NumText(n) \o <<" ", "ge-wenjian-bei-xiugai", NL>>
PromptOverviewLine(d, i) ==
    <<"-", " ", "wenjian", " ">> \o NumText(i) \o <<":", " ", "backtick">> \o d.filename
    \o <<"backtick", " ", "(", d.status, ",", " ", "+">> \o NumText(d.additions)
    \o <<"/", "-">> \o NumText(d.deletions) \o <<"hang", ")", NL>>
PatchFence == "fence-diff"
Fence == "fence"
NoPatchPlaceholder == "[meiyou-keyong-de-chayi-neirong]"
\* variant of PromptDetail that writes nothing for an entry without a patch
PromptDetail_NoPlaceholder(d, i, n) ==
    <<NL, "#", "#", "#", "#", " ", "wenjian", " ">> \o NumText(i) \o <<"/">> \o NumText(n)
    \o <<":", " ", "backtick">> \o d.filename \o <<"backtick", NL>>
    \o <<"-", " ", "zhuangtai", ":", " ", d.status, NL>>
    \o <<"-", " ", "tianjia", ":", " ">> \o NumText(d.additions) \o <<" ", "hang", NL>>
    \o <<"-", " ", "shanchu", ":", " ">> \o NumText(d.deletions) \o <<" ", "hang", NL>>
    \o <<"-", " ", "biangeng-zongji", ":", " ">> \o NumText(d.changes) \o <<" ", "hang", NL, NL>>
    \o (IF Truthy(d.patch)
        THEN <<PatchFence, NL>> \o d.patch.text \o <<NL, Fence, NL, NL>>
        ELSE <<>>)
PromptDetail(d, i, n) ==
    <<NL, "#", "#", "#", "#", " ", "wenjian", " ">> \o NumText(i) \o <<"/">> \o NumText(n)
    \o <<":", " ", "backtick">> \o d.filename \o <<"backtick", NL>>
    \o <<"-", " ", "zhuangtai", ":", " ", d.status, NL>>
    \o <<"-", " ", "tianjia", ":", " ">> \o NumText(d.additions) \o <<" ", "hang", NL>>
    \o <<"-", " ", "shanchu", ":", " ">> \o NumText(d.deletions) \o <<" ", "hang", NL>>
    \o <<"-", " ", "biangeng-zongji", ":", " ">> \o NumText(d.changes) \o <<" ", "hang", NL, NL>>
    \o (IF Truthy(d.patch)
        THEN <<PatchFence, NL>> \o d.patch.text \o <<NL, Fence, NL, NL>>
        ELSE <<NoPatchPlaceholder, NL, NL>>)
\* the requested reply format, with its own fenced code sample
PromptFormat ==
    <<NL, "#", "#", "#", " ", "qingqiu-de-shencha-geshi", NL, NL, "format-rule", NL, NL,
      "#", "#", " ", "emoji-smile", "daima-pingfen", ":", " ", "[0-100]", NL, NL,
      "#", "#", " ", "emoji-check", "daima-youdian", ":", NL, "strengths-list", NL, NL>>
    \o TemplateProblemsHeading \o <<NL, "problems-list", NL, NL,
      "#", "#", " ", "emoji-target", "xiugai-jianyi", ":", NL, "advice-list", NL, NL,
      "#", "#", " ", "emoji-computer", "xiugai-hou-de-daima", ":", NL, "code-note", NL, NL,
      "fence-[yuyan]", NL, "[code]", NL, Fence, NL, NL, "format-closing", NL>>
preparePromptFromDiffs(ds) ==
    SystemPrompt \o <<NL, NL>> \o PromptHead(Len(ds))
    \o Flatten([i \in 1..Len(ds) |-> PromptOverviewLine(ds[i], i)])
    \o <<NL, "#", "#", "#", " ", "xiangxi-biangeng-neirong", NL>>
    \o Flatten([i \in 1..Len(ds) |-> PromptDetail(ds[i], i, Len(ds))])
    \o PromptFormat

\* AICodeAnalyzer.analyze, lines 32-87: credential check, empty check, request
AIAnalyzeCall ==
    /\ anPc = "called"
    /\ analyzer = "ai"
    /\ IF apiKey = <<>>
       THEN /\ anPc' = "threw"
            /\ UNCHANGED <<anResult, netVars>>
       ELSE IF Len(diffs) = 0
       THEN /\ anPc' = "returned"
            /\ anResult' = ReviewResult(<<>>, <<>>, JsString(NothingToAnalyze))
            /\ UNCHANGED netVars
       ELSE /\ anPc' = "awaitModel"
            /\ net' = Append(net, "model")
            /\ bodies' = Append(bodies, preparePromptFromDiffs(diffs))
            /\ inflight' = inflight + 1
            /\ UNCHANGED anResult
    /\ UNCHANGED <<posVars, runVars, analyzer, apiKey, diffs, response>>

\* AICodeAnalyzer.analyze, lines 88-161: the answer arrives
AIAnalyzeResponse ==
    /\ anPc = "awaitModel"
    /\ \E r \in Responses :
          /\ response' = r
          /\ inflight' = inflight - 1
          /\ IF AnalyzeThrows(r)
             THEN anPc' = "threw" /\ UNCHANGED anResult
             ELSE /\ anPc' = "returned"
                  /\ anResult' = TheOne({AssembleResult(aiReply, diffs) :
                                          aiReply \in {ExtractReply(r.data)}})
    /\ UNCHANGED <<posVars, runVars, analyzer, apiKey, diffs, net, bodies>>

\* MockCodeAnalyzer.analyze
MockAnalyzeCall ==
    /\ anPc = "called"
    /\ analyzer = "mock"
    /\ anPc' = "returned"
    /\ anResult' = mockAnalyze(diffs)
    /\ UNCHANGED <<posVars, runVars, analyzer, apiKey, diffs, response, netVars>>

\* --------------------------------------------------------------- the run
EnvVar(v) == {JsUndefined, JsString(v)}
Envs ==
    [GITHUB_TOKEN : EnvVar(<<"t">>), GITHUB_OWNER : EnvVar(<<"o">>),
     GITHUB_REPO : EnvVar(<<"r">>),
     PR_NUMBER : EnvVar(<<"7">>) \cup {JsString(<<"x">>)},
     DRY_RUN : EnvVar(<<"true">>),
     AI_API_KEY : EnvVar(<<"k">>) \cup {JsString(<<" ">>)}]
NoEnv ==
    [GITHUB_TOKEN |-> JsUndefined, GITHUB_OWNER |-> JsUndefined,
     GITHUB_REPO |-> JsUndefined, PR_NUMBER |-> JsUndefined,
     DRY_RUN |-> JsUndefined, AI_API_KEY |-> JsUndefined]

\* isNaN(parseInt(text, 10)): no digit at the start of the text
ParseIntIsNaN(text) == DigitRunEnd(text, 1) = 1

\* variant of getConfig without the GITHUB_REPO check
getConfigThrows_RepoUnchecked(e) ==
    \/ ~Truthy(e.GITHUB_TOKEN)
    \/ ~Truthy(e.GITHUB_OWNER)
    \/ ~Truthy(e.PR_NUMBER)
    \/ ParseIntIsNaN(e.PR_NUMBER.text)
\* getConfig() throws: a required variable is missing or PR_NUMBER is no number
getConfigThrows(e) ==
    \/ ~Truthy(e.GITHUB_TOKEN)
    \/ ~Truthy(e.GITHUB_OWNER)
    \/ ~Truthy(e.GITHUB_REPO)
    \/ ~Truthy(e.PR_NUMBER)
    \/ ParseIntIsNaN(e.PR_NUMBER.text)

\* variant of isDryRun that never holds
isDryRun_Never(e) == FALSE
\* main, line 35: process.env.DRY_RUN === 'true'
isDryRun(e) == e.DRY_RUN = JsString(<<"true">>)
\* main, line 36: AI_API_KEY && AI_API_KEY.trim() !== ''
useAI(e) == Truthy(e.AI_API_KEY) /\ Trim(e.AI_API_KEY.text) # <<>>
\* AICodeAnalyzer constructor, line 19: process.env.AI_API_KEY || ''
EnvApiKey(e) == IF Truthy(e.AI_API_KEY) THEN e.AI_API_KEY.text ELSE <<>>

\* the catch of main: log and process.exit(1)
Exit1 == mainPc' = "exited" /\ exitCode' = "1"

\* main, lines 31-57: new GitHubClient() (getConfig), the analyzer, the reporter
MainStart ==
    /\ mainPc = "start"
    /\ IF getConfigThrows(env)
       THEN Exit1 /\ UNCHANGED <<analyzer, apiKey>>
       ELSE /\ mainPc' = "getPRDiffs"
            /\ analyzer' = IF useAI(env) THEN "ai" ELSE "mock"
            /\ apiKey' = IF useAI(env) THEN EnvApiKey(env) ELSE <<>>
            /\ UNCHANGED exitCode
    /\ UNCHANGED <<posVars, env, diffs, anPc, anResult, response, netVars>>

\* an outbound request of the run is sent
Send(at, name, body, next) ==
    /\ mainPc = at
    /\ net' = Append(net, name)
    /\ bodies' = Append(bodies, body)
    /\ inflight' = inflight + 1
    /\ mainPc' = next
    /\ UNCHANGED <<posVars, env, exitCode, anVars>>

\* GitHubClient.getPRDiffs, lines 27-63: pulls.get, then pulls.listFiles
SendPullsGet == Send("getPRDiffs", "pulls.get", <<>>, "awaitPullsGet")
RecvPullsGet ==
    /\ mainPc = "awaitPullsGet"
    /\ inflight' = inflight - 1
    /\ \E ok \in BOOLEAN :
          IF ok THEN mainPc' = "listFiles" /\ UNCHANGED exitCode ELSE Exit1
    /\ UNCHANGED <<posVars, env, anVars, net, bodies>>
SendListFiles == Send("listFiles", "pulls.listFiles", <<>>, "awaitListFiles")
RecvListFiles ==
    /\ mainPc = "awaitListFiles"
    /\ inflight' = inflight - 1
    /\ \E ok \in BOOLEAN :
          IF ok
          THEN /\ \E ds \in DiffSets : diffs' = ds
               /\ mainPc' = "analyze"
               /\ UNCHANGED exitCode
          ELSE Exit1 /\ UNCHANGED diffs
    /\ UNCHANGED <<posVars, env, analyzer, apiKey, anPc, anResult, response, net, bodies>>

\* variant of MainCallAnalyze that does not wait for the answer of listFiles
MainCallAnalyze_FetchNotAwaited ==
    /\ mainPc \in {"analyze", "awaitListFiles"}
    /\ mainPc' = "awaitAnalyze"
    /\ anPc' = "called"
    /\ UNCHANGED <<posVars, env, exitCode, analyzer, apiKey, diffs, anResult, response,
                   netVars>>
\* main, line 71: analyzer.analyze(diffs) is called
MainCallAnalyze ==
    /\ mainPc = "analyze"
    /\ mainPc' = "awaitAnalyze"
    /\ anPc' = "called"
    /\ UNCHANGED <<posVars, env, exitCode, analyzer, apiKey, diffs, anResult, response,
                   netVars>>

\* main, lines 71-97 once analyze has settled: a rejection goes to the catch;
\* a result is submitted, or in dry run printed, after which the run is complete
MainAfterAnalyze ==
    /\ mainPc = "awaitAnalyze"
    /\ anPc \in {"returned", "threw"}
    /\ IF anPc = "threw" THEN Exit1
       ELSE IF isDryRun(env) THEN mainPc' = "exited" /\ exitCode' = "0"
       ELSE mainPc' = "submit" /\ UNCHANGED exitCode
    /\ UNCHANGED <<posVars, env, anVars, netVars>>

\* GitHubCommentReporter.submit: comments with and without a position
commentsWithPosition(result) == SelectSeq(result.comments, LAMBDA c : c.position.defined)
commentsWithoutPosition(result) == SelectSeq(result.comments, LAMBDA c : ~c.position.defined)

\* the summary as it is concatenated into the comment: null and undefined are
\* written out as the words "null" and "undefined"
SummaryText(v) == IF v.t = "string" THEN v.text ELSE <<v.t>>
\* formatIssueList(issues): one issue; neither analyzer sets issue.suggestion, so
\* the suggestion line is never written
formatIssue(issue, i) ==
    NumText(i) \o <<".", " ", "**", issue.type, "**", ":", " ">> \o issue.message \o <<NL>>
    \o (IF issue.file # <<>>
        THEN <<" ", " ", " ", "wenjian", ":", " ", "backtick">> \o issue.file \o <<"backtick">>
             \o (IF issue.line.defined /\ issue.line.value # 0
                 THEN <<" ", "hang", ":", " ">> \o NumText(issue.line.value)
                 ELSE <<>>)
             \o <<NL>>
        ELSE <<>>)
    \o <<NL>>
formatIssueList(issues) == Flatten([i \in 1..Len(issues) |-> formatIssue(issues[i], i)])
IssueGroup(result, severity, heading) ==
    TheOne({IF Len(group) > 0 THEN heading \o <<NL, NL>> \o formatIssueList(group) ELSE <<>> :
            group \in {SelectSeq(result.issues, LAMBDA x : x.severity = severity)}})
\* the keys of commentsByFile in insertion order: each path at its first comment
FilePaths(fileComments) ==
    TheOne({[k \in 1..Len(firsts) |-> fileComments[firsts[k]].path] :
            firsts \in {Ascending({i \in 1..Len(fileComments) :
                                       \A j \in 1..(i - 1) :
                                           fileComments[j].path # fileComments[i].path})}})
FileBlock(fileComments, path) ==
    TheOne({<<"#", "#", "#", " ">> \o path \o <<NL, NL>>
            \o Flatten([i \in 1..Len(group) |->
                           NumText(i) \o <<".", " ">> \o group[i].body \o <<NL, NL>>]) :
            group \in {SelectSeq(fileComments, LAMBDA c : c.path = path)}})
CommentFooter == <<NL, NL, "-", "-", "-", NL, "footer">>
FileCommentsHeading == <<NL, NL, "#", "#", " ", "wenjian-pinglun", NL, NL>>
\* formatSummaryComment(result, fileComments)
formatSummaryComment(result, fileComments) ==
    SummaryText(result.summary)
    \o (IF Len(result.issues) > 0
        THEN <<NL, NL, "#", "#", " ", "xiangxi-wenti", NL, NL>>
             \o IssueGroup(result, "high", HighHeading)
             \o IssueGroup(result, "medium", MediumHeading)
             \o IssueGroup(result, "low", LowHeading)
        ELSE <<>>)
    \o (IF Len(fileComments) > 0
        THEN FileCommentsHeading
             \o TheOne({Flatten([k \in 1..Len(paths) |-> FileBlock(fileComments, paths[k])]) :
                        paths \in {FilePaths(fileComments)}})
        ELSE <<>>)
    \o CommentFooter

\* The file holds the class GitHubCommentReporter twice.  submit of lines 23-52
\* posts result.summary and the footer; submit of lines 76-102 posts
\* formatSummaryComment.  Both go on alike after the comment is posted.
summaryOnlyComment(result) == SummaryText(result.summary) \o CommentFooter
\* submit, line 38: createPRComment (issues.createComment)
SendCreateCommentSummaryOnly ==
    Send("submit", "issues.createComment", summaryOnlyComment(anResult), "awaitCreateComment")
\* submit, line 88: createPRComment (issues.createComment)
SendCreateComment ==
    Send("submit", "issues.createComment",
         formatSummaryComment(anResult, commentsWithoutPosition(anResult)),
         "awaitCreateComment")
\* variant of RecvCreateComment in which submit posts again after a failure
RecvCreateComment_RetryOnFailure ==
    /\ mainPc = "awaitCreateComment"
    /\ inflight' = inflight - 1
    /\ \E ok \in BOOLEAN :
          IF ~ok THEN mainPc' = "submit" /\ UNCHANGED exitCode
          ELSE IF Len(commentsWithPosition(anResult)) > 0
          THEN mainPc' = "reviewPullsGet" /\ UNCHANGED exitCode
          ELSE mainPc' = "exited" /\ exitCode' = "0"
    /\ UNCHANGED <<posVars, env, anVars, net, bodies>>
RecvCreateComment ==
    /\ mainPc = "awaitCreateComment"
    /\ inflight' = inflight - 1
    /\ \E ok \in BOOLEAN :
          IF ~ok THEN Exit1
          ELSE IF Len(commentsWithPosition(anResult)) > 0
          THEN mainPc' = "reviewPullsGet" /\ UNCHANGED exitCode
          ELSE mainPc' = "exited" /\ exitCode' = "0"
    /\ UNCHANGED <<posVars, env, anVars, net, bodies>>
\* submit, line 93: createPRReviewComment: pulls.get for the head commit, then
\* pulls.createReview
SendReviewPullsGet == Send("reviewPullsGet", "pulls.get", <<>>, "awaitReviewPullsGet")
RecvReviewPullsGet ==
    /\ mainPc = "awaitReviewPullsGet"
    /\ inflight' = inflight - 1
    /\ \E ok \in BOOLEAN :
          IF ok THEN mainPc' = "createReview" /\ UNCHANGED exitCode ELSE Exit1
    /\ UNCHANGED <<posVars, env, anVars, net, bodies>>
SendCreateReview ==
    Send("createReview", "pulls.createReview", commentsWithPosition(anResult),
         "awaitCreateReview")
RecvCreateReview ==
    /\ mainPc = "awaitCreateReview"
    /\ inflight' = inflight - 1
    /\ \E ok \in BOOLEAN :
          IF ok THEN mainPc' = "exited" /\ exitCode' = "0" ELSE Exit1
    /\ UNCHANGED <<posVars, env, anVars, net, bodies>>

\* ------------------------------------ specification: the run and analyze
\* Either a run of main from the environment, or a direct call of analyze on
\* an analyzer object (the classes are exported and constructed without checks).
IdlePos ==
    /\ patch = <<>>
    /\ targetLine = 0
    /\ patchHunks = <<>>
    /\ posPc = "idle"
    /\ posResult = Undefined

Init ==
    /\ IdlePos
    /\ exitCode = "none"
    /\ anResult = Undefined
    /\ response = NoResponse
    /\ net = <<>>
    /\ bodies = <<>>
    /\ inflight = 0
    /\ \/ /\ mainPc = "start"
          /\ env \in Envs
          /\ analyzer = "none"
          /\ apiKey = <<>>
          /\ diffs = <<>>
          /\ anPc = "idle"
       \/ /\ mainPc = "none"
          /\ env = NoEnv
          /\ analyzer \in {"mock", "ai"}
          /\ apiKey \in {<<>>, <<"k">>}
          /\ diffs \in DiffSets
          /\ anPc = "called"

Next ==
    \/ MainStart
    \/ SendPullsGet
    \/ RecvPullsGet
    \/ SendListFiles
    \/ RecvListFiles
    \/ MainCallAnalyze
    \/ MockAnalyzeCall
    \/ AIAnalyzeCall
    \/ AIAnalyzeResponse
    \/ MainAfterAnalyze
    \/ SendCreateCommentSummaryOnly
    \/ SendCreateComment
    \/ RecvCreateComment
    \/ SendReviewPullsGet
    \/ RecvReviewPullsGet
    \/ SendCreateReview
    \/ RecvCreateReview

Spec == Init /\ [][Next]_vars

\* ------------------------------------------- specification: the resolver
InitPos ==
    /\ patchHunks \in PatchInputs
    /\ patch = PatchText(patchHunks)
    /\ targetLine \in Targets
    /\ posPc = "call"
    /\ posResult = Undefined
    /\ env = NoEnv
    /\ mainPc = "none"
    /\ exitCode = "none"
    /\ analyzer = "none"
    /\ apiKey = <<>>
    /\ diffs = <<>>
    /\ anPc = "idle"
    /\ anResult = Undefined
    /\ response = NoResponse
    /\ net = <<>>
    /\ bodies = <<>>
    /\ inflight = 0

CallCalculatePosition ==
    /\ posPc = "call"
    /\ posResult' = calculatePosition(patch, targetLine)
    /\ posPc' = "done"
    /\ UNCHANGED <<patch, targetLine, patchHunks, runVars, anVars, netVars>>

NextPos == CallCalculatePosition

SpecPos == InitPos /\ [][NextPos]_vars

\* ---------------------------------------------------- claims: the resolver
\* new-file lines [start, start+len-1] of a hunk with a well-formed header
HunkRange(h) == h.start .. (h.start + NewLen(h.body) - 1)
\* index in the body of the first line at which n non-deletion lines were seen
FirstBodyIndex(body, n) ==
    CHOOSE j \in 1..Len(body) :
        /\ NewLen(SubSeq(body, 1, j)) = n
        /\ \A q \in 1..(j - 1) : NewLen(SubSeq(body, 1, q)) # n
AllOk(hs) == \A i \in 1..Len(hs) : hs[i].kind = "ok"
PatchLineAt(p) == Split(patch, NL)[p]

\* C1: for a patch of one well-formed hunk and a target within the hunk's
\* new-file lines, the result is the 1-based patch index (header = 1) of the
\* first line at which target - start + 1 non-deletion lines have been seen.
C1_SingleHunkPosition ==
    (/\ posPc = "done"
     /\ Len(patchHunks) = 1
     /\ patchHunks[1].kind = "ok"
     /\ targetLine \in HunkRange(patchHunks[1]))
    => posResult = Some(1 + FirstBodyIndex(patchHunks[1].body,
                                           targetLine - patchHunks[1].start + 1))

\* C1 witness: the worked example, target 3, resolves to position 4
C1_Witness ==
    /\ posPc = "done"
    /\ patchHunks = ExampleHunks
    /\ targetLine = 3
    /\ posResult = Some(4)

\* C2: the result is undefined for every target outside the new-file range of
\* every hunk, and for every target when the patch has no hunk header.
C2_OutsideEveryHunkUnresolvable ==
    (/\ posPc = "done"
     /\ \/ patchHunks[1].kind = "none"
        \/ /\ AllOk(patchHunks)
           /\ \A i \in 1..Len(patchHunks) : targetLine \notin HunkRange(patchHunks[i]))
    => posResult = Undefined

\* C3: a resolved position never names a deleted line nor a hunk-header line
\* of the patch.
C3_PositionOnNewFileLine ==
    (posPc = "done" /\ posResult.defined)
    => /\ ~StartsWith(PatchLineAt(posResult.value), <<"-">>)
       /\ ~StartsWith(PatchLineAt(posResult.value), <<"@", "@">>)

C5_MalformedHeaderUnresolvable ==
    (/\ posPc = "done"
     /\ \E i \in 1..Len(patchHunks) : patchHunks[i].kind = "nocount")
    => posResult = Undefined

\* ------------------------------------------- claims: analyze and the run
\* analyze has settled: it returned a result or failed
Settled == anPc \in {"returned", "threw"}
\* how many requests with this name were sent so far
Sent(name) == Len(SelectSeq(net, LAMBDA n : n = name))
FixedEmptyResult == ReviewResult(<<>>, <<>>, JsString(NothingToAnalyze))
RequiredNames == {"GITHUB_TOKEN", "GITHUB_OWNER", "GITHUB_REPO", "PR_NUMBER"}
MissingRequired(e) == \E k \in RequiredNames : e[k] = JsUndefined

\* C6 as stated: for an empty diff sequence both analyzers return the fixed
\* result (no issues, no comments, the fixed summary) and send no request to the
\* model endpoint, whether or not an AI credential is set.
C6_EmptyDiffsAnyCredential ==
    (Settled /\ Len(diffs) = 0)
    => /\ anPc = "returned"
       /\ anResult = FixedEmptyResult
       /\ Sent("model") = 0

\* C6 amended: for an empty diff sequence the mock analyzer, and the AI analyzer
\* holding a credential, return the fixed result and send no request to the
\* model endpoint; the AI analyzer without a credential fails instead, also
\* without a request.
C6_EmptyDiffsFixedResult ==
    (Settled /\ Len(diffs) = 0)
    => /\ Sent("model") = 0
       /\ IF analyzer = "mock" \/ apiKey # <<>>
          THEN anPc = "returned" /\ anResult = FixedEmptyResult
          ELSE anPc = "threw" /\ anResult = Undefined

\* C6 witness: the AI analyzer holding a credential returned the fixed result
\* for an empty diff sequence fetched by a run
C6_Witness ==
    /\ mainPc = "awaitAnalyze"
    /\ analyzer = "ai"
    /\ apiKey # <<>>
    /\ diffs = <<>>
    /\ anPc = "returned"
    /\ anResult = FixedEmptyResult
    /\ Sent("model") = 0

\* C7: analyze of the AI analyzer with an empty credential fails without a
\* request to the model endpoint, and a run with a missing token, owner, repo or
\* PR number exits with status 1 before any request at all is sent.
C7_MissingConfigNoRequest ==
    /\ (analyzer = "ai" /\ apiKey = <<>> /\ anPc \notin {"idle", "called"})
          => (anPc = "threw" /\ anResult = Undefined /\ Sent("model") = 0)
    /\ (mainPc \notin {"none", "start"} /\ MissingRequired(env))
          => (mainPc = "exited" /\ exitCode = "1" /\ net = <<>> /\ anPc = "idle")

\* C7 witness: a run without GITHUB_REPO, every other variable set, has exited
C7_Witness ==
    /\ mainPc = "exited"
    /\ exitCode = "1"
    /\ env.GITHUB_REPO = JsUndefined
    /\ Truthy(env.GITHUB_TOKEN) /\ Truthy(env.GITHUB_OWNER) /\ Truthy(env.AI_API_KEY)
    /\ env.PR_NUMBER = JsString(<<"7">>)
    /\ net = <<>>

\* C8: after an answer with a non-success status analyze has failed and holds
\* no result, exactly one request went to the model endpoint, no request went
\* to the comment sink, and a run can only exit with status 1.
C8_NonSuccessStatusFails ==
    (response.kind = "response" /\ ~response.ok)
    => /\ anPc = "threw"
       /\ anResult = Undefined
       /\ Sent("model") = 1
       /\ Sent("issues.createComment") = 0
       /\ Sent("pulls.createReview") = 0
       /\ mainPc \in {"none", "awaitAnalyze", "exited"}
       /\ mainPc = "exited" => exitCode = "1"

\* C8 witness: a run whose model request was answered with a non-success
\* status and a JSON body has exited
C8_Witness ==
    /\ response.kind = "response"
    /\ ~response.ok
    /\ response.json
    /\ mainPc = "exited"
    /\ exitCode = "1"
    /\ net = <<"pulls.get", "pulls.listFiles", "model">>

\* C9: after an answer with a success status analyze returns a result and does
\* not fail, whatever the body is.
C9_SuccessStatusAlwaysReturns ==
    (response.kind = "response" /\ response.ok)
    => (anPc = "returned" /\ anResult.defined)

\* C10: every result the AI analyzer returns for a non-empty diff sequence has
\* as its summary the reply extracted from the response (the content of the
\* first message, when the envelope holds one), whatever was parsed from it and
\* whether or not the parse threw.
C10_SummaryIsReply ==
    (analyzer = "ai" /\ anPc = "returned" /\ Len(diffs) > 0)
    => /\ anResult.summary = ExtractReply(response.data)
       /\ \A c \in {JsNull} \cup {JsString(r) : r \in SampleReplies} :
              response.data = Envelope(c) => anResult.summary = c

\* C10 witness: the parse of a null reply threw and the summary is that reply
C10_Witness ==
    /\ analyzer = "ai"
    /\ anPc = "returned"
    /\ Len(diffs) > 0
    /\ response.data = Envelope(JsNull)
    /\ ParseThrows(anResult.summary)
    /\ anResult.comments = <<>>

\* ------------------------------------------------ claims: reply extraction
\* the content of the first message of an envelope, or undefined when the
\* envelope has no choices, no first choice, no message or no content key
FirstContent(data) ==
    IF data.t = "object" /\ "choices" \in DOMAIN data.f
       /\ data.f.choices.t = "array" /\ Len(data.f.choices.items) > 0
       /\ data.f.choices.items[1].t = "object"
       /\ "message" \in DOMAIN data.f.choices.items[1].f
       /\ data.f.choices.items[1].f.message.t = "object"
       /\ "content" \in DOMAIN data.f.choices.items[1].f.message.f
    THEN data.f.choices.items[1].f.message.f.content
    ELSE JsUndefined

\* C11: the reply extracted from the envelope (kept as the summary) is the
\* content of the first message when that is present, and otherwise the JSON
\* text of the whole envelope; it is always a string.
C11_ReplyIsContentOrEnvelopeText ==
    (analyzer = "ai" /\ anPc = "returned" /\ Len(diffs) > 0)
    => /\ anResult.summary.t = "string"
       /\ anResult.summary =
              IF FirstContent(response.data).t = "string"
              THEN FirstContent(response.data)
              ELSE JsString(Stringify(response.data))

\* ------------------------------------ claims: the reply read line by line
\* A reference reading of a reply, independent of the patterns: the reply is
\* cut into lines, a heading line opens a section, and every later item line
\* "n. message - zai file:line" belongs to the section opened last.
SeverityNames == {"high", "medium", "low"}
HeadingKind(line) ==
    IF line = HighHeading THEN "high"
    ELSE IF line = MediumHeading THEN "medium"
    ELSE IF line = LowHeading THEN "low"
    ELSE IF line = ProblemsHeading THEN "problems"
    ELSE IF Len(line) > 0 /\ line[1] = "#" THEN "other"
    ELSE "text"
ZaiMark == <<" ", "-", " ", "zai", " ">>
IsItemLine(line) ==
    /\ Len(line) >= 11
    /\ IsDigit(line[1]) /\ line[2] = "." /\ line[3] = " "
    /\ FirstIndexOf(line, ZaiMark) > 4
    /\ line[Len(line) - 1] = ":" /\ IsDigit(line[Len(line)])
CitedItem(line, section) ==
    [section |-> section,
     message |-> SubSeq(line, 4, FirstIndexOf(line, ZaiMark) - 1),
     file |-> SubSeq(line, FirstIndexOf(line, ZaiMark) + 5, Len(line) - 2),
     line |-> DigitValue(line[Len(line)])]
\* the indices at which the lines of a text start, and the line that starts at s
LineStarts(text) ==
    {s \in 1..Len(text) : s = 1 \/ text[s - 1] = NL}
LineAt(text, s) ==
    TheOne({SubSeq(text, s, e - 1) :
            e \in {Min({j \in s..(Len(text) + 1) : j = Len(text) + 1 \/ text[j] = NL})}})
\* the section of the line that starts at s: the kind of the last heading line
\* before it, "none" when there is none
SectionAt(text, s) ==
    TheOne({IF hs = {} THEN "none" ELSE HeadingKind(LineAt(text, Max(hs))) :
            hs \in {{h \in LineStarts(text) :
                         h < s /\ HeadingKind(LineAt(text, h)) # "text"}}})
ReplyItems(text) ==
    TheOne({[k \in 1..Len(starts) |->
                CitedItem(LineAt(text, starts[k]), SectionAt(text, starts[k]))] :
            starts \in {Ascending({s \in LineStarts(text) :
                                       /\ HeadingKind(LineAt(text, s)) = "text"
                                       /\ IsItemLine(LineAt(text, s))})}})
ItemsIn(text, sections) == SelectSeq(ReplyItems(text), LAMBDA it : it.section \in sections)
ExpectedIssues(items) ==
    [i \in 1..Len(items) |->
        [message |-> items[i].message, file |-> items[i].file,
         line |-> Some(items[i].line), severity |-> items[i].section, type |-> "bug"]]
IssuesOf(result, sections) == SelectSeq(result.issues, LAMBDA x : x.severity \in sections)

\* the AI analyzer returned a result for a reply that is text
HasTextReply ==
    /\ analyzer = "ai"
    /\ anPc = "returned"
    /\ Len(diffs) > 0
    /\ FirstContent(response.data).t = "string"
ReplyText == FirstContent(response.data).text
Replied(r) == HasTextReply /\ ReplyText = r

\* the items a section of the reply holds; a reply that is no text holds none
\* (reading any of its sections raises the same exception)
SectionItems(reply, section) ==
    IF reply.t = "string" THEN ItemsIn(reply.text, {section}) ELSE <<>>

C13_SeverityOfHeading ==
    HasTextReply
    => /\ \A sev \in SeverityNames :
              IssuesOf(anResult, {sev}) = ExpectedIssues(ItemsIn(ReplyText, {sev}))
       /\ \A i \in 1..Len(anResult.issues) : anResult.issues[i].severity \in SeverityNames

\* C13 witness: the reply with only the high subsection gave one finding, of
\* severity high
C13_Witness ==
    /\ Replied(ReplyHigh)
    /\ Len(anResult.issues) = 1
    /\ anResult.issues[1].severity = "high"
    /\ anResult.summary = JsString(ReplyHigh)

\* a section name stands at index i right after hashes and optional spaces
HeadingWords ==
    {"gao-yanzhongxing-wenti", "zhongdeng-yanzhongxing-wenti", "di-yanzhongxing-wenti",
     "wentidian"}
HeadingWordAt(text, i) ==
    /\ text[i] \in HeadingWords
    /\ \E j \in 1..(i - 1) : text[j] = "#" /\ \A q \in (j + 1)..(i - 1) : text[q] = " "
NoRecognisedHeading(text) == \A i \in 1..Len(text) : ~HeadingWordAt(text, i)

\* C14: whenever the answer holds a reply that is text, analyze returns (the
\* parse does not throw), and for a text without any recognised heading the
\* result has no findings, no comments and the text as its summary.
C14_TextNeverThrows ==
    (/\ analyzer = "ai"
     /\ response.kind = "response" /\ response.ok /\ response.json
     /\ FirstContent(response.data).t = "string")
    => /\ anPc = "returned"
       /\ NoRecognisedHeading(ReplyText)
             => /\ anResult.issues = <<>>
                /\ anResult.comments = <<>>
                /\ anResult.summary = JsString(ReplyText)

\* C14 witness: the reply that follows the prompt's template, whose problem
\* heading carries an emoji and is not recognised, gave an empty result
C14_Witness ==
    /\ Replied(ReplyTemplate)
    /\ NoRecognisedHeading(ReplyText)
    /\ Len(ReplyItems(ReplyText)) = 1
    /\ anResult.issues = <<>>
    /\ anResult.comments = <<>>

\* C15: the findings are in the order of their items in the reply text,
\* whatever the order of the severity subsections, and so are the comments.
C15_ReplyTextOrder ==
    HasTextReply
    => /\ anResult.issues = ExpectedIssues(ItemsIn(ReplyText, SeverityNames))
       /\ [i \in 1..Len(anResult.comments) |-> anResult.comments[i].path]
             = [i \in 1..Len(ItemsIn(ReplyText, {"problems"})) |->
                   ItemsIn(ReplyText, {"problems"})[i].file]

\* C16: every item of a subsection gives one finding and every item of the
\* problem list one comment, items that repeat a file, line and text included.
C16_NoDeduplication ==
    HasTextReply
    => /\ \A sev \in SeverityNames :
              Len(IssuesOf(anResult, {sev})) = Len(ItemsIn(ReplyText, {sev}))
       /\ Len(anResult.comments) = Len(ItemsIn(ReplyText, {"problems"}))

\* C16 witness: the reply with the same item twice in the medium subsection
\* and twice in the problem list gave two equal findings and two equal comments
C16_Witness ==
    /\ Replied(ReplyRepeat)
    /\ Len(anResult.issues) = 2
    /\ anResult.issues[1] = anResult.issues[2]
    /\ Len(anResult.comments) = 2
    /\ anResult.comments[1] = anResult.comments[2]

\* the diff entry's path equals the cited file or ends with "/" and the cited file
EntryMatches(d, file) ==
    \/ d.filename = file
    \/ /\ Len(d.filename) > Len(file)
       /\ SubSeq(d.filename, Len(d.filename) - Len(file), Len(d.filename)) = <<"/">> \o file
MatchingEntries(file) == {k \in 1..Len(diffs) : EntryMatches(diffs[k], file)}
ResolvesIn(k, line) ==
    /\ diffs[k].patch.t = "string"
    /\ calculatePosition(diffs[k].patch.text, line).defined

\* C17 as stated: each item of the problem list gives one comment whose path
\* is the cited file, and whose position is present exactly when some diff
\* entry matches the cited file, has a patch and resolves the cited line.
C17_PositionIffSomeEntryResolves ==
    HasTextReply
    => LET items == ItemsIn(ReplyText, {"problems"})
       IN  /\ Len(anResult.comments) = Len(items)
           /\ \A i \in 1..Len(items) :
                  /\ anResult.comments[i].path = items[i].file
                  /\ anResult.comments[i].position.defined
                        <=> \E k \in MatchingEntries(items[i].file) :
                               ResolvesIn(k, items[i].line)

\* C17 amended: each item of the problem list gives one comment whose path is
\* the cited file; its position is what calculatePosition gives for the cited
\* line in the patch of the first diff entry (in diff order) that matches the
\* cited file, and is absent when no entry matches or that first entry has no
\* patch, whatever later entries hold.
C17_PositionFromFirstMatch ==
    HasTextReply
    => LET items == ItemsIn(ReplyText, {"problems"})
       IN  /\ Len(anResult.comments) = Len(items)
           /\ \A i \in 1..Len(items) :
                  /\ anResult.comments[i].path = items[i].file
                  /\ anResult.comments[i].position =
                        IF MatchingEntries(items[i].file) = {} THEN Undefined
                        ELSE LET k == Min(MatchingEntries(items[i].file))
                             IN  IF diffs[k].patch.t = "string"
                                 THEN calculatePosition(diffs[k].patch.text, items[i].line)
                                 ELSE Undefined

\* C17 witness: an item citing a.ts:3 was matched by suffix with the entry
\* src/a.ts: the comment's path is a.ts and its position is 4
C17_Witness ==
    /\ Replied(ReplyFull)
    /\ diffs[1] = DiffSrcA
    /\ anResult.comments[1].path = FileA
    /\ anResult.comments[1].position = Some(4)
    /\ ~anResult.comments[2].position.defined

\* ---------------------------------------------------------------- C18
\* the places of a prompt where a patch block or a placeholder starts
BlockStarts(prompt) ==
    Ascending({i \in 1..Len(prompt) : prompt[i] \in {PatchFence, NoPatchPlaceholder}})
\* the patch is embedded word for word between the opening and the closing fence
BlockEmbeds(prompt, i, text) ==
    /\ i + Len(text) + 3 <= Len(prompt)
    /\ SubSeq(prompt, i, i + Len(text) + 3) = <<PatchFence, NL>> \o text \o <<NL, Fence>>
CountLine(n) == <<"gongyou", " ">> \o NumText(n) \o <<" ", "ge-wenjian-bei-xiugai", NL>>
StatesCount(prompt, n) ==
    \E i \in 1..Len(prompt) :
        /\ i + Len(CountLine(n)) - 1 <= Len(prompt)
        /\ SubSeq(prompt, i, i + Len(CountLine(n)) - 1) = CountLine(n)
PromptCoversDiffs(prompt, ds) ==
    /\ StatesCount(prompt, Len(ds))
    /\ \A starts \in {BlockStarts(prompt)} :
           /\ Len(starts) = Len(ds)
           /\ \A k \in 1..Len(ds) :
                  IF Truthy(ds[k].patch)
                  THEN BlockEmbeds(prompt, starts[k], ds[k].patch.text)
                  ELSE prompt[starts[k]] = NoPatchPlaceholder
\* C18: the prompt built from a diff sequence, and so the prompt of every model
\* request, has in input order one fenced block holding the patch word for word
\* per entry with a patch and one placeholder per entry without, and states the
\* number of entries.
C18_PromptCoversDiffs ==
    /\ PromptCoversDiffs(preparePromptFromDiffs(diffs), diffs)
    /\ \A i \in 1..Len(net) : net[i] = "model" => PromptCoversDiffs(bodies[i], diffs)
\* a model request was sent for two entries, the first with a patch, the second without
C18_Witness ==
    /\ Len(diffs) = 2
    /\ Truthy(diffs[1].patch)
    /\ ~Truthy(diffs[2].patch)
    /\ \E i \in 1..Len(net) : net[i] = "model" /\ bodies[i] = preparePromptFromDiffs(diffs)

\* ---------------------------------------------------------------- C19
\* text occurs in body at place p
OccursAt(body, p, text) ==
    /\ p + Len(text) - 1 <= Len(body)
    /\ SubSeq(body, p, p + Len(text) - 1) = text
\* the number a comment without position gets under its file: its rank among
\* the comments without position on the same path
RemarkNumber(comments, j) ==
    Cardinality({k \in 1..j : ~comments[k].position.defined /\ comments[k].path = comments[j].path})
\* the places of body where text occurs
Places(body, text) ==
    {p \in 1..Len(body) : body[p] = text[1] /\ OccursAt(body, p, text)}
\* comment j is a numbered remark under its file's heading in the file comment part
PublishedAsRemark(body, comments, j) ==
    \E h \in Places(body, FileCommentsHeading) :
        \E f \in Places(body, <<"#", "#", "#", " ">> \o comments[j].path \o <<NL, NL>>) :
            \E p \in Places(body, NumText(RemarkNumber(comments, j)) \o <<".", " ">>
                                      \o comments[j].body \o <<NL, NL>>) :
                h < f /\ f < p
\* C19: in the summary comment that submit posts, every comment without a
\* position is a numbered remark under its file; the review that submit posts
\* carries exactly the comments with a position, in order, and a run that ends
\* well after posting the summary has posted that review iff there is such a comment.
C19_PositionlessPublished ==
    /\ \A i \in 1..Len(net) :
           /\ net[i] = "issues.createComment" =>
                  \A j \in 1..Len(anResult.comments) :
                      ~anResult.comments[j].position.defined =>
                          PublishedAsRemark(bodies[i], anResult.comments, j)
           /\ net[i] = "pulls.createReview" =>
                  bodies[i] = SelectSeq(anResult.comments, LAMBDA c : c.position.defined)
    /\ (mainPc = "exited" /\ exitCode = "0" /\ Sent("issues.createComment") = 1) =>
           (Sent("pulls.createReview") = 1
               <=> \E j \in 1..Len(anResult.comments) : anResult.comments[j].position.defined)
\* ---------------------------------------------------------------- C20
DryRunSet == env.DRY_RUN = JsString(<<"true">>)
\* C20: a run with DRY_RUN = 'true' sends neither issues.createComment nor
\* pulls.createReview, whichever analyzer ran and whatever it returned; a run
\* without DRY_RUN that ended after its analysis returned has posted the summary
\* comment exactly once, and no run posts it or the review twice.
C20_DryRunNeverPosts ==
    /\ DryRunSet => Sent("issues.createComment") = 0 /\ Sent("pulls.createReview") = 0
    /\ Sent("issues.createComment") <= 1
    /\ Sent("pulls.createReview") <= 1
    /\ (mainPc = "exited" /\ anPc = "returned" /\ env.DRY_RUN = JsUndefined) =>
           Sent("issues.createComment") = 1
\* a dry run ended well after the model's analysis returned comments
C20_Witness ==
    /\ DryRunSet
    /\ mainPc = "exited"
    /\ exitCode = "0"
    /\ analyzer = "ai"
    /\ anPc = "returned"
    /\ Len(anResult.comments) > 0
    /\ net = <<"pulls.get", "pulls.listFiles", "model">>

\* ---------------------------------------------------------------- C21
FetchNames == {"pulls.listFiles"}
ReportNames == {"issues.createComment", "pulls.createReview"}
\* the places of net that hold a request of the given names
RequestsOf(names) == {i \in 1..Len(net) : net[i] \in names}
FetchingPcs == {"start", "getPRDiffs", "awaitPullsGet", "listFiles", "awaitListFiles"}
ReportingPcs ==
    {"submit", "awaitCreateComment", "reviewPullsGet", "awaitReviewPullsGet",
     "createReview", "awaitCreateReview"}
AwaitingPcs ==
    {"awaitPullsGet", "awaitListFiles", "awaitCreateComment", "awaitReviewPullsGet",
     "awaitCreateReview"}
\* C21: at most one outbound request is in flight at any moment; in a run the
\* analysis starts only after the diff fetch has completed, the report starts
\* only after the analysis has returned, and the requests go out in that order:
\* diff source, then model endpoint, then comment sink.
C21_StrictlySequential ==
    /\ inflight \in {0, 1}
    /\ inflight = 1 <=> (mainPc \in AwaitingPcs \/ anPc = "awaitModel")
    /\ mainPc \in FetchingPcs => anPc = "idle" /\ Sent("model") = 0
    /\ mainPc \in ReportingPcs => anPc = "returned"
    /\ RequestsOf(ReportNames) # {} => anPc = "returned"
    /\ \A i \in RequestsOf({"model"}) :
           /\ mainPc # "none" => \E f \in RequestsOf(FetchNames) : f < i
           /\ \A r \in RequestsOf(ReportNames) : i < r
    /\ \A f \in RequestsOf(FetchNames) : \A r \in RequestsOf(ReportNames) : f < r
\* a run that sent all its requests, one after the other, and ended well
C21_Witness ==
    /\ mainPc = "exited"
    /\ exitCode = "0"
    /\ inflight = 0
    /\ net = <<"pulls.get", "pulls.listFiles", "model", "issues.createComment",
               "pulls.get", "pulls.createReview">>

\* ---------------------------------------------------------------- C22
InRun == mainPc # "none"
\* the requests of a run that went through every stage
CompleteNets ==
    {<<"pulls.get", "pulls.listFiles">> \o model \o sink :
        model \in {<<>>, <<"model">>},
        sink \in {<<>>, <<"issues.createComment">>,
                  <<"issues.createComment", "pulls.get", "pulls.createReview">>}}
\* a failure of the configuration or of a request ends the run with status 1 and
\* nothing is sent afterwards; a run that ends with status 0 had no failure
C22_FailuresEndRun ==
    /\ (InRun /\ mainPc # "start" /\ getConfigThrows(env))
           => (mainPc = "exited" /\ exitCode = "1" /\ net = <<>>)
    /\ (InRun /\ (response.kind = "reject" \/ (response.kind = "response" /\ ~response.ok)))
           => /\ anPc = "threw"
              /\ RequestsOf(ReportNames) = {}
              /\ mainPc = "exited" => exitCode = "1"
    /\ exitCode = "0"
           => /\ net \in CompleteNets
              /\ inflight = 0
              /\ anPc = "returned"
              /\ DryRunSet <=> Sent("issues.createComment") = 0
    /\ mainPc = "exited" => inflight = 0
\* after an answer with a success status the analysis returns, whatever the
\* answer holds, and the run ends badly only if the comment sink failed
C22_DegradationsAbsorbed ==
    (InRun /\ response.kind = "response" /\ response.ok)
    => /\ anPc = "returned"
       /\ (mainPc = "exited" /\ DryRunSet) => exitCode = "0"
       /\ (mainPc = "exited" /\ exitCode = "1") => Sent("issues.createComment") = 1
\* the same for the answers whose body is a JSON object
C22_ObjectAnswersAbsorbed ==
    (response.json /\ response.data.t = "object") => C22_DegradationsAbsorbed
\* C22: a configuration or transport failure at any stage ends the run with a
\* non-zero status and no later stage runs; a degraded parse or an unresolvable
\* position never ends the run, which reports what was recovered and ends well.
C22_FailuresEndDegradationsDoNot == C22_FailuresEndRun /\ C22_DegradationsAbsorbed

\* ---------------------------------------------------------------- C23
\* the comments of the result that have a position, in their order
Positioned == SelectSeq(anResult.comments, LAMBDA c : c.position.defined)
\* the requests sent from the summary comment on
SinkRequests ==
    IF RequestsOf({"issues.createComment"}) = {} THEN <<>>
    ELSE SubSeq(net, Min(RequestsOf({"issues.createComment"})), Len(net))
ReviewPcs == {"reviewPullsGet", "awaitReviewPullsGet", "createReview", "awaitCreateReview"}
\* C23: one submit posts the summary comment at most once and the review at
\* most once; the review is begun only after the summary comment was answered
\* well and only when some comment has a position, it carries exactly the
\* comments with a position in their order, and a submit that ends well has
\* sent every one of its requests.
C23_SubmitOnceInOrder ==
    /\ SinkRequests \in {<<>>, <<"issues.createComment">>,
                          <<"issues.createComment", "pulls.get">>,
                          <<"issues.createComment", "pulls.get", "pulls.createReview">>}
    /\ RequestsOf({"pulls.createReview"}) # {} => SinkRequests # <<>>
    /\ (mainPc \in ReviewPcs \/ Len(SinkRequests) > 1)
           => Sent("issues.createComment") = 1 /\ Len(Positioned) > 0
    /\ \A i \in RequestsOf({"pulls.createReview"}) : bodies[i] = Positioned
    /\ (mainPc = "exited" /\ exitCode = "0" /\ SinkRequests # <<>>)
           => Len(SinkRequests) = (IF Len(Positioned) > 0 THEN 3 ELSE 1)
    /\ (mainPc = "exited" /\ SinkRequests # <<>>
           /\ Len(SinkRequests) # (IF Len(Positioned) > 0 THEN 3 ELSE 1))
           => exitCode = "1"
\* the review is in flight after the summary comment; the result has a comment
\* with a position and one without
C23_Witness ==
    /\ mainPc = "awaitCreateReview"
    /\ SinkRequests = <<"issues.createComment", "pulls.get", "pulls.createReview">>
    /\ Len(Positioned) > 0
    /\ Len(Positioned) < Len(anResult.comments)
    /\ bodies[Len(bodies)] = Positioned

\* ---------------------------------------------------------------- C24
ScriptFile(name) == EndsWith(name, <<".ts">>) \/ EndsWith(name, <<".js">>)
StyleFile(name) == ~ScriptFile(name) /\ EndsWith(name, <<".css">>)
TextFile(name) ==
    /\ ~ScriptFile(name) /\ ~StyleFile(name)
    /\ (EndsWith(name, <<".md">>) \/ EndsWith(name, <<".txt">>))
\* the entries that have a rule, in diff order
RuledEntries ==
    Ascending({i \in 1..Len(diffs) :
                  \/ ScriptFile(diffs[i].filename)
                  \/ StyleFile(diffs[i].filename)
                  \/ TextFile(diffs[i].filename)})
MockReturned == analyzer = "mock" /\ anPc = "returned" /\ Len(diffs) > 0
\* the mock analyzer never fails and sends nothing; its findings are one per
\* entry that has a rule, in diff order, of the type of the rule
C24_RulesPerExtension ==
    /\ analyzer = "mock" => anPc # "threw" /\ Sent("model") = 0
    /\ MockReturned =>
           \A entries \in {RuledEntries} :
               /\ Len(anResult.issues) = Len(entries)
               /\ \A k \in 1..Len(entries) :
                      /\ anResult.issues[k].file = diffs[entries[k]].filename
                      /\ ScriptFile(diffs[entries[k]].filename)
                             => anResult.issues[k].type = "performance"
                      /\ StyleFile(diffs[entries[k]].filename)
                             => anResult.issues[k].type = "style"
\* every finding of a script or style entry carries a line number
C24_FindingsCarryLine ==
    MockReturned =>
        \A k \in 1..Len(anResult.issues) :
            anResult.issues[k].type \in {"performance", "style"}
               => anResult.issues[k].line.defined
\* C24: for a non-empty diff set the mock analyzer succeeds without I/O; each
\* .ts or .js entry gives one finding of type performance and each .css entry
\* one of type style, each with a fixed line number, other entries without a
\* rule give none, and the findings are in diff order.
C24_FixedRulesWithLines == C24_RulesPerExtension /\ C24_FindingsCarryLine

\* ---------------------------------------------------------------- C25
\* C25: the comment of a problem-list item that cites line 0 has no position,
\* whatever the patch of the cited file.
C25_LineZeroNeverPositioned ==
    HasTextReply =>
        \A items \in {ItemsIn(ReplyText, {"problems"})} :
            \A k \in 1..Len(items) :
                (k <= Len(anResult.comments) /\ items[k].line = 0)
                   => ~anResult.comments[k].position.defined

\* ---------------------------------------------------------------- C26
\* the reply that follows the template of the prompt has its one item read as
\* one comment on the cited file
C26_TemplateReplyRecognised ==
    Replied(ReplyTemplate) =>
        /\ Len(anResult.comments) = 1
        /\ anResult.comments[1].path = FileA
\* every severity heading the parser looks for stands in the prompt that was sent
C26_SeverityHeadingsRequested ==
    \A i \in RequestsOf({"model"}) :
        \A heading \in {HighHeading, MediumHeading, LowHeading} :
            Places(bodies[i], heading) # {}
\* C26: prompt and parser agree on the reply format: a reply that follows the
\* template of the prompt (the problem list under the heading with the emoji,
\* items of the form N. text - zai file:line) gives one comment per item, and
\* the severity headings the parser looks for are headings the prompt asks for.
C26_PromptAndParserAgree == C26_TemplateReplyRecognised /\ C26_SeverityHeadingsRequested

\* ---------------------------------------------------------------- C27
\* a finding and a comment of the same list item: same file, same text
SameItem(issue, comment) ==
    /\ issue.file = comment.path
    /\ formatCommentBody(issue.message) = comment.body
\* C27 as stated: every comment of a result of the AI analyzer has a finding
\* of the same list item among the issues.
C27_EveryCommentHasFinding ==
    HasTextReply =>
        \A k \in 1..Len(anResult.comments) :
            \E j \in 1..Len(anResult.issues) :
                SameItem(anResult.issues[j], anResult.comments[k])
\* C27 amended: the comments are the items of the problem list, one per item in
\* order and on the cited file, and the findings are the items of the three
\* severity subsections; an item of the problem list that stands in no
\* severity subsection gives a comment without a finding.
C27_CommentsFromProblemList ==
    HasTextReply =>
        /\ \A items \in {ItemsIn(ReplyText, {"problems"})} :
               /\ Len(anResult.comments) = Len(items)
               /\ \A k \in 1..Len(items) : anResult.comments[k].path = items[k].file
        /\ Len(anResult.issues) = Len(ItemsIn(ReplyText, SeverityNames))
\* the reply with three findings and three problem items, one of them on a file
\* that no finding names
C27_Witness ==
    /\ Replied(ReplyFull)
    /\ Len(anResult.comments) = 3
    /\ Len(anResult.issues) = 3
    /\ anResult.comments[2].path = FileOther
    /\ \A j \in 1..Len(anResult.issues) : anResult.issues[j].file # FileOther

\* ---------------------------------------------------------------- C28
\* entry e has the cited file as its name; entry e has it only as a suffix
ExactEntry(e, file) == diffs[e].filename = file
SuffixOnlyEntry(e, file) ==
    diffs[e].filename # file /\ EndsWith(diffs[e].filename, <<"/">> \o file)
\* the position of a line in the patch of entry e
PositionIn(e, line) ==
    IF Truthy(diffs[e].patch) THEN calculatePosition(diffs[e].patch.text, line) ELSE Undefined
\* C28: when the file an item cites is the name of one entry and only a suffix
\* of the name of another, the position of its comment is the position of the
\* cited line in the patch of the entry of that name, in either order of the
\* two entries.
C28_ExactMatchPreferred ==
    HasTextReply =>
        \A items \in {ItemsIn(ReplyText, {"problems"})} :
            \A k \in 1..Len(items) : \A e, o \in 1..Len(diffs) :
                (/\ k <= Len(anResult.comments)
                 /\ ExactEntry(e, items[k].file)
                 /\ SuffixOnlyEntry(o, items[k].file))
                => anResult.comments[k].position = PositionIn(e, items[k].line)
\* the same when the entry of that name comes first
C28_ExactMatchFirst ==
    (Len(diffs) = 2 /\ diffs[1].filename = FileA) => C28_ExactMatchPreferred

====
